---- MODULE Spec2Model ----
(***************************************************************************)
(* Influent Generator API: the two source variants of the service          *)
(* (src/influent_API.py, which clamps the batch size, and                  *)
(* src/influent_api.py, which validates it and adds HEAD /), their shared  *)
(* sampler generate_influent and the process-wide random source.           *)
(*                                                                         *)
(* Numbers are fixed point.  The range table is written in tenths (pH 6.0  *)
(* is 60); a drawn or rounded value is written in "fine" units, FineSteps  *)
(* of them to a tenth, so 1.0 is Scale fine units.                         *)
(***************************************************************************)
EXTENDS Integers, Sequences, FiniteSets, TLC

\* ---------------------------------------------------------------- bounds
\* Fine units per tenth: how finely a draw is resolved below the rounding unit.
FineSteps == 10
\* The generator's output is one of RngMod equally spaced fractions u / RngMod.
RngMod == 97
\* The generator's output moves by RngStride (mod RngMod) with every draw.
RngStride == 31
\* The generator is seeded from 0..MaxSeed.
MaxSeed == 1
\* Requests one server receives in a behaviour.
MaxRequests == 2

Scale == 10 * FineSteps

\* ------------------------------------------------------------ the program
\* The two source files, each a deployable server.
Variants == {"influent_API", "influent_api"}

\* Worker threads of a server's thread pool that the model uses.
Slots == {1, 2}

\* INFLUENT_RANGES as written in the source, in tenths: field |-> <<low, high>>.
RangeTable ==
  [ flow_m3_h         |-> <<200, 5000>>,
    temp_C            |-> <<100, 350>>,
    pH                |-> <<60, 85>>,
    TSS_in_mgL        |-> <<800, 8000>>,
    BOD_in_mgL        |-> <<1000, 5000>>,
    COD_in_mgL        |-> <<2000, 10000>>,
    oil_grease_in_mgL |-> <<10, 500>>,
    turbidity_in_NTU  |-> <<200, 5000>> ]

\* The keyword arguments of Influent(...) in generate_influent, in the order
\* Python evaluates them: one rand call each.
FieldOrder ==
  << "flow_m3_h", "temp_C", "pH", "TSS_in_mgL", "BOD_in_mgL", "COD_in_mgL",
     "oil_grease_in_mgL", "turbidity_in_NTU" >>

\* Mutant: decimals=0 left out of the flow_m3_h call.
DecimalsArg_AllDefault(f) == 1

\* The decimals argument of each rand call: 0 for flow_m3_h, the default 1 otherwise.
DecimalsArg(f) == IF f = "flow_m3_h" THEN 0 ELSE 1

VARIABLES
  deployed,         \* the servers that run in this behaviour
  rng,              \* per server: the state of the module-level random source
  INFLUENT_RANGES,  \* per server: the module-level range table (a mutable dict)
  threads,          \* per server and worker slot: the request being handled
  history           \* per server: the requests answered so far, with their outcome

vars == <<deployed, rng, INFLUENT_RANGES, threads, history>>

\* ------------------------------------------------------- the random source
\* The module-level generator of `random` is deterministic: its state is the
\* seed it got at import and the number of draws made since (pos), and every
\* draw advances it.  Its outputs stand for those of the library's generator.

\* random.random(): the output for the generator's current state, as the
\* numerator u of the fraction u / RngMod in [0, 1).
RandomOut(g) == (g.seed + g.pos * RngStride) % RngMod

\* The generator's state after one draw.
RandomAdvance(g) == [g EXCEPT !.pos = @ + 1]

\* x / d rounded to the nearest integer (x >= 0, d > 0): the rounding of a
\* floating-point product onto the grid of fine units.
RoundDiv(x, d) == (2 * x + d) \div (2 * d)

\* Mutant: low + high * random().
uniform_NoSpan(low, high, u) == low * FineSteps + RoundDiv(high * FineSteps * u, RngMod)

\* random.uniform(low, high) = low + (high - low) * random(), low and high in
\* tenths, the result in fine units.
uniform(low, high, u) == low * FineSteps + RoundDiv((high - low) * FineSteps * u, RngMod)

\* Python's round to a multiple of unit: to nearest, ties to the even multiple.
\* (A tie on the grid of fine units stands for floats next to the midpoint,
\* which round(value, 1) takes to one of the same two neighbours.)
RoundHalfEven(value, unit) ==
  LET q == value \div unit
      r == value % unit
  IN  IF 2 * r < unit THEN q * unit
      ELSE IF 2 * r > unit THEN (q + 1) * unit
      ELSE IF q % 2 = 0 THEN q * unit
      ELSE (q + 1) * unit

RECURSIVE Pow10(_)
Pow10(k) == IF k = 0 THEN 1 ELSE 10 * Pow10(k - 1)

\* round(value, decimals): to a multiple of 10^-decimals, which is Scale / 10^decimals
\* fine units (FineSteps for one decimal).
RoundDecimals(value, decimals) == RoundHalfEven(value, Scale \div Pow10(decimals))

\* generate_influent's helper rand(low, high, decimals), given the draw u.
rand(low, high, decimals, u) ==
  LET value == uniform(low, high, u)
  IN  IF decimals = 0 THEN RoundHalfEven(value, Scale)
      ELSE RoundDecimals(value, decimals)

\* Influent(flow_m3_h=..., ...): the record built from the eight rand results.
Influent(values) ==
  [ f \in {FieldOrder[i] : i \in 1..Len(values)} |->
      values[CHOOSE i \in 1..Len(values) : FieldOrder[i] = f] ]

\* ------------------------------------------------------------ requests
NoQuery == <<>>
Request(method, path, query) == [method |-> method, path |-> path, query |-> query]

\* The routes each source file declares: <<method, path>> |-> handler.
Routes(v) ==
  IF v = "influent_API"
    THEN { <<"GET", "/", "root">>,
           <<"GET", "/influent", "get_single_influent">>,
           <<"GET", "/influent/batch", "get_batch_influent">> }
    ELSE { <<"GET", "/", "root">>,
           <<"HEAD", "/", "head_root">>,
           <<"GET", "/influent", "get_single_influent">>,
           <<"GET", "/influent/batch", "get_batch_influent">> }

Routed(v, req, handler) == <<req.method, req.path, handler>> \in Routes(v)

Min2(a, b) == IF a < b THEN a ELSE b
Max2(a, b) == IF a > b THEN a ELSE b

\* The query parameter n as the handler's signature declares it: the default 5
\* when the request carries none.
ParamN(req) == IF req.query = NoQuery THEN 5 ELSE req.query[1]

\* Mutant: the bounds read as exclusive (gt, lt).
ValidN_Exclusive(v, n) == IF v = "influent_api" THEN n > 1 /\ n < 100 ELSE TRUE

\* Mutant: only le=100 is declared.
ValidN_UpperOnly(v, n) == IF v = "influent_api" THEN n <= 100 ELSE TRUE

\* Query(ge=1, le=100) in influent_api.py; influent_API.py declares a plain int.
ValidN(v, n) == IF v = "influent_api" THEN n >= 1 /\ n <= 100 ELSE TRUE

\* Mutant: n = min(n, 100), the lower clamp forgotten.
EffectiveN_NoLowerClamp(v, n) == IF v = "influent_API" THEN Min2(n, 100) ELSE n

\* Mutant: n = max(1, min(n, 99)).
EffectiveN_Clamp99(v, n) == IF v = "influent_API" THEN Max2(1, Min2(n, 99)) ELSE n

\* n as get_batch_influent uses it: influent_API.py clamps, influent_api.py does not.
EffectiveN(v, n) == IF v = "influent_API" THEN Max2(1, Min2(n, 100)) ELSE n

HealthBody == [status |-> "ok", message |-> "Influent Generator API is running."]
EmptyBody == <<>>

NoResponse == [status |-> 0, kind |-> "none", body |-> EmptyBody]

IdleThread ==
  [ pc       |-> "idle",
    req      |-> Request("", "", NoQuery),
    handler  |-> "",
    n        |-> 0,
    samples  |-> <<>>,
    drawn    |-> <<>>,
    invoked  |-> <<>>,
    tickets  |-> <<>>,
    resp     |-> NoResponse ]

Seeds == 0..MaxSeed

InitServers(D) ==
  /\ deployed = D
  /\ \E seed \in Seeds : rng = [v \in Variants |-> [seed |-> seed, pos |-> 0]]
  /\ INFLUENT_RANGES = [v \in Variants |-> RangeTable]
  /\ threads = [v \in Variants |-> [s \in Slots |-> IdleThread]]
  /\ history = [v \in Variants |-> <<>>]

Init == \E v \in Variants : InitServers({v})

\* What the client and the log see of an answered request.
Summary(t) ==
  [ req |-> t.req, status |-> t.resp.status, kind |-> t.resp.kind,
    count |-> IF t.resp.kind = "batch" THEN t.resp.body.count ELSE 0,
    calls |-> Len(t.invoked), draws |-> Len(t.tickets) ]

\* --------------------------------------------------------------- handlers
\* A handler that answers without sampling is one step: the thread it leaves.

\* root(): the fixed health payload, status 200.
root(t) ==
  [t EXCEPT !.pc = "done", !.handler = "root",
            !.resp = [status |-> 200, kind |-> "health", body |-> HealthBody]]

\* head_root(response): status_code=200, and a HEAD response carries no body.
head_root(t) ==
  [t EXCEPT !.pc = "done", !.handler = "head_root",
            !.resp = [status |-> 200, kind |-> "empty", body |-> EmptyBody]]

\* get_single_influent(): one call of generate_influent, whose result is returned.
get_single_influent(t) ==
  [t EXCEPT !.pc = "sampling", !.handler = "get_single_influent", !.n = 1]

\* Mutant: range(n + 1).
get_batch_influent_ExtraIteration(v, t, n) ==
  [t EXCEPT !.pc = "sampling", !.handler = "get_batch_influent",
            !.n = EffectiveN(v, n) + 1]

\* get_batch_influent(n): [generate_influent() for _ in range(n)], n clamped
\* first in influent_API.py.
get_batch_influent(v, t, n) ==
  [t EXCEPT !.pc = "sampling", !.handler = "get_batch_influent",
            !.n = EffectiveN(v, n)]

\* The framework's answer to a parameter that fails Query(ge=1, le=100): 422,
\* the handler is not called.
ValidationError(t) ==
  [t EXCEPT !.pc = "done", !.handler = "",
            !.resp = [status |-> 422, kind |-> "error", body |-> EmptyBody]]

\* The framework's answer to a method no route of the path declares: 405.
MethodNotAllowed(t) ==
  [t EXCEPT !.pc = "done", !.handler = "",
            !.resp = [status |-> 405, kind |-> "error", body |-> EmptyBody]]

\* Routing and parameter validation of one request on server v, up to the
\* handler's first sampler call (or its answer when it makes none).
Dispatch(v, req) ==
  LET t == [IdleThread EXCEPT !.req = req]
  IN  IF Routed(v, req, "root") THEN root(t)
      ELSE IF Routed(v, req, "head_root") THEN head_root(t)
      ELSE IF Routed(v, req, "get_single_influent") THEN get_single_influent(t)
      ELSE IF Routed(v, req, "get_batch_influent")
        THEN IF ValidN(v, ParamN(req))
               THEN get_batch_influent(v, t, ParamN(req))
               ELSE ValidationError(t)
      ELSE MethodNotAllowed(t)

\* The history of a server once thread t has (or has not yet) answered.
Logged(h, t) == IF t.pc = "done" THEN Append(h, Summary(t)) ELSE h

\* A worker slot takes a request when it is free.
Free(v, s) ==
  /\ v \in deployed
  /\ threads[v][s].pc \in {"idle", "done"}
  /\ Len(history[v]) + Cardinality({x \in Slots : threads[v][x].pc = "sampling"})
       < MaxRequests

\* Mutant: the health check draws a number from the shared source.
Receive_HealthDraws(v, s, req) ==
  /\ Free(v, s)
  /\ threads' = [threads EXCEPT ![v][s] = Dispatch(v, req)]
  /\ history' = [history EXCEPT ![v] = Logged(@, threads'[v][s])]
  /\ rng' = [rng EXCEPT ![v] = IF req.path = "/" THEN RandomAdvance(@) ELSE @]
  /\ UNCHANGED <<deployed, INFLUENT_RANGES>>

\* Server v receives req on worker slot s.
Receive(v, s, req) ==
  /\ Free(v, s)
  /\ threads' = [threads EXCEPT ![v][s] = Dispatch(v, req)]
  /\ history' = [history EXCEPT ![v] = Logged(@, threads'[v][s])]
  /\ UNCHANGED <<deployed, rng, INFLUENT_RANGES>>

Root(v, s) == Receive(v, s, Request("GET", "/", NoQuery))

HeadRoot(v, s) == Receive(v, s, Request("HEAD", "/", NoQuery))

GetSingleInfluent(v, s) == Receive(v, s, Request("GET", "/influent", NoQuery))

GetBatchInfluent(v, s, query) == Receive(v, s, Request("GET", "/influent/batch", query))

\* The thread after one rand call of generate_influent that drew u at generator
\* position pos: the next field of FieldOrder is computed; the eighth completes
\* the Influent, which the handler appends to its list.
AfterRand(t, ranges, u, pos) ==
  LET f      == FieldOrder[Len(t.drawn) + 1]
      value  == rand(ranges[f][1], ranges[f][2], DecimalsArg(f), u)
      values == Append(t.drawn, value)
      got    == [t EXCEPT !.tickets = Append(@, pos)]
  IN  IF Len(values) < Len(FieldOrder)
        THEN [got EXCEPT !.drawn = values]
        ELSE [got EXCEPT !.drawn = <<>>,
                         !.samples = Append(@, Influent(values)),
                         !.invoked = Append(@, Influent(values))]

\* Mutant: the generator is read and written back without mutual exclusion, so
\* the advance is lost while another thread is sampling.
Draw_LostUpdate(v, s) ==
  /\ v \in deployed
  /\ threads[v][s].pc = "sampling"
  /\ Len(threads[v][s].samples) < threads[v][s].n
  /\ threads' = [threads EXCEPT ![v][s] =
       AfterRand(@, INFLUENT_RANGES[v], RandomOut(rng[v]), rng[v].pos)]
  /\ rng' = [rng EXCEPT ![v] =
       IF \E x \in Slots \ {s} : threads[v][x].pc = "sampling" THEN @
       ELSE RandomAdvance(@)]
  /\ UNCHANGED <<deployed, INFLUENT_RANGES, history>>

\* One rand call: random.uniform reads and advances the shared generator
\* atomically (random.random is one C call), then the value is rounded.
Draw(v, s) ==
  /\ v \in deployed
  /\ threads[v][s].pc = "sampling"
  /\ Len(threads[v][s].samples) < threads[v][s].n
  /\ threads' = [threads EXCEPT ![v][s] =
       AfterRand(@, INFLUENT_RANGES[v], RandomOut(rng[v]), rng[v].pos)]
  /\ rng' = [rng EXCEPT ![v] = RandomAdvance(@)]
  /\ UNCHANGED <<deployed, INFLUENT_RANGES, history>>

\* A thread and the generator after the next k rand calls of one thread.
RECURSIVE RandCalls(_, _, _, _)
RandCalls(t, ranges, g, k) ==
  IF k = 0 THEN [thread |-> t, rng |-> g]
  ELSE RandCalls(AfterRand(t, ranges, RandomOut(g), g.pos), ranges, RandomAdvance(g), k - 1)

\* One call of generate_influent with no other request in flight: its eight
\* rand calls in a row.
GenerateInfluent(v, s) ==
  /\ v \in deployed
  /\ threads[v][s].pc = "sampling"
  /\ Len(threads[v][s].samples) < threads[v][s].n
  /\ LET after == RandCalls(threads[v][s], INFLUENT_RANGES[v], rng[v], Len(FieldOrder))
     IN  /\ threads' = [threads EXCEPT ![v][s] = after.thread]
         /\ rng' = [rng EXCEPT ![v] = after.rng]
  /\ UNCHANGED <<deployed, INFLUENT_RANGES, history>>

\* What the handler returns once its sampler calls are made.
Returned(t) ==
  IF t.handler = "get_single_influent"
    THEN [status |-> 200, kind |-> "influent", body |-> t.samples[1]]
    ELSE [status |-> 200, kind |-> "batch",
          body |-> [count |-> t.n, influents |-> t.samples]]

\* The handler returns; its locals are gone.
Respond(v, s) ==
  /\ v \in deployed
  /\ threads[v][s].pc = "sampling"
  /\ Len(threads[v][s].samples) >= threads[v][s].n
  /\ threads' = [threads EXCEPT ![v][s] =
       [threads[v][s] EXCEPT !.pc = "done", !.resp = Returned(threads[v][s]),
                             !.samples = <<>>]]
  /\ history' = [history EXCEPT ![v] = Logged(@, threads'[v][s])]
  /\ UNCHANGED <<deployed, rng, INFLUENT_RANGES>>

\* ------------------------------------------------- one server, one request at a time
\* The query strings of GET /influent/batch that the model sends.
Queries == {NoQuery, <<0>>, <<1>>, <<10>>, <<100>>, <<101>>, <<1000>>}

Next ==
  \E v \in Variants :
    \/ Root(v, 1)
    \/ HeadRoot(v, 1)
    \/ GetSingleInfluent(v, 1)
    \/ \E query \in Queries : GetBatchInfluent(v, 1, query)
    \/ GenerateInfluent(v, 1)
    \/ Respond(v, 1)

Spec == Init /\ [][Next]_vars

\* --------------------------------------------- one server, two requests in flight
\* The query strings sent while another request is being handled.
ConcQueries == {<<0>>, <<1>>}

\* A worker that has not served a request yet.
Fresh(v, s) == threads[v][s].pc = "idle"

\* Worker 1 serves a batch request while worker 2 serves one of the other
\* requests; the two handlers' steps interleave in any order.
NextConc ==
  \E v \in Variants :
    \/ \E query \in ConcQueries : Fresh(v, 1) /\ GetBatchInfluent(v, 1, query)
    \/ Fresh(v, 2) /\ Root(v, 2)
    \/ Fresh(v, 2) /\ HeadRoot(v, 2)
    \/ Fresh(v, 2) /\ GetSingleInfluent(v, 2)
    \/ \E s \in Slots : Draw(v, s)
    \/ \E s \in Slots : Respond(v, s)

\* The interleavings are explored from the first seed.
InitConc == Init /\ \A v \in Variants : rng[v].seed = 0

SpecConc == InitConc /\ [][NextConc]_vars

\* ----------------------------------- both servers, fed the same request sequence
InitPair == InitServers(Variants)

AllRequests ==
  { Request("GET", "/", NoQuery), Request("HEAD", "/", NoQuery),
    Request("GET", "/influent", NoQuery) }
  \cup { Request("GET", "/influent/batch", query) : query \in Queries }

\* The client sends the same request to both servers.
ReceiveBoth(req) ==
  /\ \A v \in Variants : Free(v, 1)
  /\ threads' = [v \in Variants |->
       [threads[v] EXCEPT ![1] = Dispatch(v, req)]]
  /\ history' = [v \in Variants |-> Logged(history[v], threads'[v][1])]
  /\ UNCHANGED <<deployed, rng, INFLUENT_RANGES>>

\* The client reads the answer of influent_API.py before it lets influent_api.py run.
Turn(v) == v = "influent_API" \/ threads["influent_API"][1].pc = "done"

NextPair ==
  \/ \E req \in AllRequests : ReceiveBoth(req)
  \/ \E v \in Variants : Turn(v) /\ GenerateInfluent(v, 1)
  \/ \E v \in Variants : Turn(v) /\ Respond(v, 1)

SpecPair == InitPair /\ [][NextPair]_vars

\* =================================================================== claims
Answered(v, s) == v \in deployed /\ threads[v][s].pc = "done"

IsBatchRequest(req) == req.method = "GET" /\ req.path = "/influent/batch"

\* The samples a thread holds or has returned.
Produced(t) == {t.invoked[i] : i \in 1..Len(t.invoked)}

Returns(t) ==
  IF t.resp.kind = "influent" THEN {t.resp.body}
  ELSE IF t.resp.kind = "batch"
    THEN {t.resp.body.influents[i] : i \in 1..Len(t.resp.body.influents)}
  ELSE {}

AllSamples ==
  UNION {Produced(threads[v][s]) \cup Returns(threads[v][s]) : v \in Variants, s \in Slots}

\* P holds of every sample a thread's sampler calls produced and of every
\* sample its response carries.
EverySample(P(_)) ==
  \A v \in deployed, s \in Slots :
    LET t == threads[v][s]
    IN  /\ \A i \in 1..Len(t.invoked) : P(t.invoked[i])
        /\ t.resp.kind = "influent" => P(t.resp.body)
        /\ t.resp.kind = "batch" =>
              \A i \in 1..Len(t.resp.body.influents) : P(t.resp.body.influents[i])

\* C1: every batch that GET /influent/batch returns, in either variant and for
\* any n, has count = len(influents) and 1 <= count <= 100.
C1_BatchCountInvariant ==
  \A v \in Variants, s \in Slots :
    LET t == threads[v][s]
    IN  t.resp.kind = "batch" =>
          /\ t.resp.body.count = Len(t.resp.body.influents)
          /\ 1 <= t.resp.body.count
          /\ t.resp.body.count <= 100

\* C1's case: a batch was returned for an n outside 1..100.
C1_Witness ==
  \E v \in Variants, s \in Slots :
    LET t == threads[v][s]
    IN  /\ Answered(v, s)
        /\ IsBatchRequest(t.req)
        /\ t.req.query = <<1000>>
        /\ t.resp.kind = "batch"
        /\ Len(t.resp.body.influents) = 100

\* C2: for 1 <= n <= 100, GET /influent/batch?n=<n> returns 200 with count = n
\* and n influents; with n omitted it returns count = 5.  Both variants.
C2_InRangeBatch ==
  \A v \in Variants, s \in Slots :
    LET t == threads[v][s]
        q == t.req.query
    IN  (Answered(v, s) /\ IsBatchRequest(t.req)) =>
          IF q = NoQuery
            THEN /\ t.resp.status = 200
                 /\ t.resp.kind = "batch"
                 /\ t.resp.body.count = 5
                 /\ Len(t.resp.body.influents) = 5
            ELSE (1 <= q[1] /\ q[1] <= 100) =>
                   /\ t.resp.status = 200
                   /\ t.resp.kind = "batch"
                   /\ t.resp.body.count = q[1]
                   /\ Len(t.resp.body.influents) = q[1]

\* C2's case: the validating variant answered n = 10 with ten influents, and
\* some server answered a request without n.
C2_Witness ==
  /\ \E s \in Slots :
       LET t == threads["influent_api"][s]
       IN  /\ Answered("influent_api", s)
           /\ IsBatchRequest(t.req)
           /\ t.req.query = <<10>>
           /\ t.resp.kind = "batch"
           /\ Len(t.resp.body.influents) = 10
  /\ \E i \in 1..Len(history["influent_api"]) :
       LET h == history["influent_api"][i]
       IN  IsBatchRequest(h.req) /\ h.req.query = NoQuery /\ h.count = 5

\* How an answered out-of-range batch request was handled.
OutOfRange(h) ==
  /\ IsBatchRequest(h.req)
  /\ h.req.query # NoQuery
  /\ (h.req.query[1] < 1 \/ h.req.query[1] > 100)

Clamped(h) ==
  /\ h.status = 200
  /\ h.kind = "batch"
  /\ h.count = (IF h.req.query[1] < 1 THEN 1 ELSE 100)

Rejected(h) ==
  /\ h.status >= 400
  /\ h.status <= 499
  /\ h.kind = "error"
  /\ h.calls = 0
  /\ h.draws = 0

\* C3: within a variant every out-of-range n meets the same policy: all are
\* clamped into [1, 100] (n < 1 to 1, n > 100 to 100), or all are rejected with
\* a client error, no batch and no sampler call.
C3_UniformPolicy ==
  \A v \in Variants :
    LET H == {history[v][i] : i \in 1..Len(history[v])}
        O == {h \in H : OutOfRange(h)}
    IN  (\A h \in O : Clamped(h)) \/ (\A h \in O : Rejected(h))

\* C3's case: one server has answered both n = 0 and n = 1000, by clamping.
C3_Witness ==
  \E v \in Variants :
    \E i, j \in 1..Len(history[v]) :
      /\ IsBatchRequest(history[v][i].req)
      /\ IsBatchRequest(history[v][j].req)
      /\ history[v][i].req.query = <<0>>
      /\ history[v][j].req.query = <<1000>>
      /\ history[v][i].calls = 1
      /\ history[v][j].calls = 100

\* A sample with exactly the fields of the range table, each within its bounds.
InRange(x) ==
  /\ DOMAIN x = DOMAIN RangeTable
  /\ \A f \in DOMAIN x :
       /\ RangeTable[f][1] * FineSteps <= x[f]
       /\ x[f] <= RangeTable[f][2] * FineSteps

\* C4: every sample has exactly the eight fields of the range table, and each
\* value lies in its field's [low, high] after rounding (pH in [6.0, 8.5]).
C4_FieldsInRange == EverySample(InRange)

\* C4's case: rounding took a pH draw up onto the upper bound 8.5, and a
\* flow draw down onto the lower bound 20.
C4_Witness ==
  /\ \E x \in AllSamples : x.pH = 85 * FineSteps
  /\ \E x \in AllSamples : x.flow_m3_h = 200 * FineSteps

\* A sample rounded as the decimals column says.
Precise(x) ==
  \A f \in DOMAIN x :
    IF f = "flow_m3_h" THEN x[f] % Scale = 0 ELSE x[f] % FineSteps = 0

\* C5: in every sample flow_m3_h is a whole number and every other field a
\* multiple of 0.1.
C5_Precision == EverySample(Precise)

\* C5's case: a sample whose one-decimal fields are not all whole numbers.
C5_Witness ==
  \E x \in AllSamples :
    /\ x.flow_m3_h % Scale = 0
    /\ x.temp_C % Scale # 0
    /\ x.pH % Scale # 0

\* C6: GET / returns 200 with the fixed body and HEAD / returns 200 with an
\* empty body, whatever was served before.
C6_HealthProbes ==
  \A v \in Variants, s \in Slots :
    LET t == threads[v][s]
    IN  (Answered(v, s) /\ t.req.path = "/") =>
          /\ t.resp.status = 200
          /\ t.req.method = "GET" => t.resp.body = HealthBody
          /\ t.req.method = "HEAD" => t.resp.body = EmptyBody

\* The sampler calls the request of a thread must make: none for the health
\* routes and for a refused request, one for GET /influent, the effective n for
\* an accepted batch.
ExpectedCalls(t) ==
  LET n == IF t.req.query = NoQuery THEN 5 ELSE t.req.query[1]
  IN  IF t.req.path = "/influent" THEN 1
      ELSE IF t.req.path = "/influent/batch" /\ t.resp.status # 422
        THEN (IF n < 1 THEN 1 ELSE IF n > 100 THEN 100 ELSE n)
      ELSE 0

\* C7: a request makes a fixed number of sampler calls before its response:
\* none for GET / and HEAD /, one for GET /influent, the effective n for an
\* accepted batch, whose i-th influent is the i-th call's result; once it has
\* responded the handler makes no further call.
C7_SamplerCalls ==
  \A v \in Variants, s \in Slots :
    LET t == threads[v][s]
    IN  /\ t.pc = "sampling" =>
             /\ Len(t.invoked) <= ExpectedCalls(t)
             /\ t.resp = NoResponse
        /\ t.pc = "done" =>
             /\ Len(t.invoked) = ExpectedCalls(t)
             /\ t.resp.kind = "influent" => t.resp.body = t.invoked[1]
             /\ t.resp.kind = "batch" => t.resp.body.influents = t.invoked
             /\ t.resp.kind \in {"health", "empty", "error"} => t.invoked = <<>>

\* C7's case: a batch of ten was returned after ten calls, all different.
C7_Witness ==
  \E v \in Variants, s \in Slots :
    LET t == threads[v][s]
    IN  /\ Answered(v, s)
        /\ t.resp.kind = "batch"
        /\ Len(t.invoked) = 10
        /\ Cardinality(Produced(t)) = 10

RECURSIVE SumDraws(_)
SumDraws(h) == IF h = <<>> THEN 0 ELSE h[1].draws + SumDraws(Tail(h))

RECURSIVE SumInFlight(_, _)
SumInFlight(v, S) ==
  IF S = {} THEN 0
  ELSE LET s == CHOOSE x \in S : TRUE
       IN  (IF threads[v][s].pc = "sampling" THEN Len(threads[v][s].tickets) ELSE 0)
             + SumInFlight(v, S \ {s})

\* C8: no handler changes the range table, and the shared random source is
\* advanced by sampler calls only, eight draws a call: health checks and
\* refused batch requests leave it where it was.
C8_SharedStateFrame ==
  \A v \in Variants :
    /\ INFLUENT_RANGES[v] = RangeTable
    /\ rng[v].pos = SumDraws(history[v]) + SumInFlight(v, Slots)
    /\ \A i \in 1..Len(history[v]) :
         LET h == history[v][i]
         IN  /\ h.draws = Len(FieldOrder) * h.calls
             /\ h.kind \in {"health", "empty", "error"} => h.draws = 0

\* C8's case: a health check or a refused request was answered after a request
\* that sampled.
C8_Witness ==
  \E v \in Variants :
    /\ Len(history[v]) = 2
    /\ history[v][1].draws > 0
    /\ history[v][2].kind \in {"health", "error"}
    /\ rng[v].pos = history[v][1].draws

\* The draws of a thread, in order: the generator positions it consumed.
Tickets(v) == [s \in Slots |-> {threads[v][s].tickets[i] : i \in 1..Len(threads[v][s].tickets)}]

\* The value a field must have when it was computed from the draw at position pos.
FromDraw(v, f, pos) ==
  rand(RangeTable[f][1], RangeTable[f][2], DecimalsArg(f),
       RandomOut([seed |-> rng[v].seed, pos |-> pos]))

\* C9: however concurrently served requests interleave on the shared random
\* source, every draw goes to exactly one field of one request (none lost,
\* none given twice), every response holds exactly its own n samples, built
\* from the draws its own request made, and every field is in range.
C9_ConcurrentDraws ==
  \A v \in deployed :
    /\ \A s \in Slots :
         Cardinality(Tickets(v)[s]) = Len(threads[v][s].tickets)
    /\ \A s1, s2 \in Slots : s1 # s2 => Tickets(v)[s1] \cap Tickets(v)[s2] = {}
    /\ UNION {Tickets(v)[s] : s \in Slots} = 0..(rng[v].pos - 1)
    /\ \A s \in Slots :
         LET t == threads[v][s]
         IN  /\ \A i \in 1..Len(t.invoked) : \A j \in 1..Len(FieldOrder) :
                  t.invoked[i][FieldOrder[j]] =
                    FromDraw(v, FieldOrder[j], t.tickets[Len(FieldOrder) * (i - 1) + j])
             /\ t.resp.kind = "batch" =>
                  /\ t.resp.body.count = ExpectedCalls(t)
                  /\ t.resp.body.influents = t.invoked
             /\ t.resp.kind = "influent" => t.resp.body = t.invoked[1]
             /\ \A x \in Returns(t) : \A f \in DOMAIN x :
                  /\ RangeTable[f][1] * FineSteps <= x[f]
                  /\ x[f] <= RangeTable[f][2] * FineSteps

\* C9's case: two requests were answered whose draws alternated.
C9_Witness ==
  \E v \in deployed :
    /\ Answered(v, 1)
    /\ Answered(v, 2)
    /\ threads[v][1].resp.kind = "batch"
    /\ threads[v][2].resp.kind = "influent"
    /\ threads[v][1].tickets = <<0, 2, 4, 6, 8, 10, 12, 14>>
    /\ threads[v][2].tickets = <<1, 3, 5, 7, 9, 11, 13, 15>>

\* The generator position at which a server started its latest answered request.
StartPos(v) == SumDraws(SubSeq(history[v], 1, Len(history[v]) - 1))

BothAnswered ==
  /\ \A v \in Variants : Answered(v, 1)
  /\ threads["influent_API"][1].req = threads["influent_api"][1].req

\* C10: fed the same request from the same generator state, the two variants
\* answer alike for GET /, GET /influent and GET /influent/batch with n omitted
\* or in 1..100; for n out of range influent_API.py returns 1 or 100 samples
\* and consumes draws while influent_api.py refuses and consumes none; HEAD /
\* is served by influent_api.py only.
C10_VariantsAgree ==
  BothAnswered =>
    LET a   == threads["influent_API"][1]
        b   == threads["influent_api"][1]
        req == a.req
        inRange == req.query = NoQuery \/ (1 <= req.query[1] /\ req.query[1] <= 100)
    IN  /\ (req.method = "GET" /\ req.path = "/") => a.resp = b.resp
        /\ (req.method = "GET" /\ req.path = "/influent"
              /\ StartPos("influent_API") = StartPos("influent_api"))
             => a.resp = b.resp
        /\ (IsBatchRequest(req) /\ inRange
              /\ StartPos("influent_API") = StartPos("influent_api"))
             => a.resp = b.resp
        /\ (IsBatchRequest(req) /\ ~inRange) =>
             /\ a.resp.status = 200
             /\ a.resp.kind = "batch"
             /\ a.resp.body.count \in {1, 100}
             /\ Len(a.tickets) = Len(FieldOrder) * a.resp.body.count
             /\ b.resp.status = 422
             /\ b.resp.kind = "error"
             /\ b.tickets = <<>>
        /\ req.method = "HEAD" =>
             /\ b.resp.status = 200
             /\ b.resp.body = EmptyBody
             /\ a.resp.status = 405

\* C10's case: both variants returned the same batch of 100 from the same
\* generator state, after an earlier request.
C10_Witness ==
  /\ BothAnswered
  /\ threads["influent_API"][1].req.query = <<100>>
  /\ threads["influent_API"][1].resp.kind = "batch"
  /\ threads["influent_API"][1].resp = threads["influent_api"][1].resp
  /\ Len(history["influent_API"]) = 2
  /\ StartPos("influent_API") > 0

====
